---- MODULE Spec2Model ----
(***************************************************************************)
(* A model of ClangdClient (src/clangd.py): the asyncio client that talks  *)
(* to a clangd process over framed JSON-RPC.  The state is the object's    *)
(* fields, the two background tasks, and the position and locals of each   *)
(* foreground coroutine.  One action is one run of a coroutine between two *)
(* points where it really suspends (a to_thread call, or a get() on an     *)
(* empty asyncio.Queue); an unbounded Queue.put and a get() on a non-empty *)
(* queue do not yield to the event loop, so they stay inside the action.   *)
(***************************************************************************)
EXTENDS Integers, Sequences, FiniteSets, TLC

\* ------------------------------------------------------------- bounds
\* The number of inputs the client is given: a public call begun (start,
\* stop, send_request, did_open, did_close; a call begun while another call
\* is suspended counts twice), or a message read from the peer that dispatch
\* does not drop.
MaxEvents == 6
\* The length of the text a framed request payload carries.
MaxText == 2

\* ---------------------------------------------------------- constants
\* The foreground coroutines (tool invocations) that may overlap.
Callers == {"c1", "c2"}
\* Workspaces a caller may pass to start.
Workspaces == {"/ws", "/ws2"}
\* The file start takes from cdb[0], and the path callers open and close.
CdbFile == "f0"
Paths == {"f0"}
\* self.id = 10 in __init__
InitialId == 10
CreateMethod == "window/workDoneProgress/create"
ProgressMethod == "$/progress"
BgToken == "backgroundIndexProgress"

\* --------------------------------------------------- inbound messages
\* A dict is a record; a key is present iff it is in the record's DOMAIN.
Resp(i) == [id |-> i, result |-> "r"]
CreateReq(tok) == [id |-> 0, method |-> CreateMethod, params |-> [token |-> tok]]
Progress(tok, kind, p) ==
    [method |-> ProgressMethod,
     params |-> [token |-> tok, value |-> [kind |-> kind, percentage |-> p]]]
OtherNotif == [method |-> "textDocument/publishDiagnostics", params |-> [token |-> "none"]]
EmptyPayload == [jsonrpc |-> "2.0"]
NoMsg == [none |-> TRUE]

HasKey(m, k) == k \in DOMAIN m

\* What the peer can put on its stdout once it has read the requests with
\* the ids in `ids`: the peer is outside the repository, so every message
\* below can arrive at any time, in any order and any number of times.
PeerMsgs(ids) ==
    {Resp(i) : i \in ids}
    \cup {CreateReq(BgToken), CreateReq("other")}
    \cup {Progress(BgToken, "begin", 0), Progress(BgToken, "report", 40),
          Progress(BgToken, "end", 0), Progress("other", "end", 0)}
    \cup {OtherNotif, EmptyPayload}

\* -------------------------------------------------- outbound payloads
Request(method, i) == [method |-> method, id |-> i]
Notification(method, p) == [method |-> method, params |-> p]
Ack(i) == [id |-> i, result |-> "null"]
Envelope(req, need) == [request |-> req, need_resp |-> need]

VARIABLES
    \* ClangdClient fields
    workspace_path, id, process, opened_files, send_queue, pending_queue,
    received_queue, clangd_started, receive_task, send_task,
    \* the send task's position: the payload being written, or NoMsg
    writing,
    \* request ids written to the stdin of the current process
    written,
    \* asyncio.Queue._getters of received_queue, the callers a put has woken
    \* and that have not run yet, and for a woken caller whose queue object
    \* stop() replaced, what that object still holds
    getters, woken, old_queue,
    \* foreground coroutines: position and locals
    pc, arg, myid, tracker,
    \* history: the last call that returned or raised, the inputs given so
    \* far, the requests the send task took and the responses dispatch
    \* matched on this connection, and whether a tracker reached Done on it
    result, nevents, sent_count, matched_count, index_done

\* The framing of one connection, followed byte by byte: what the send task
\* writes and what the receive task makes of the same bytes.
VARIABLES
    \* the platform's line ending (self.endl)
    endl,
    \* the text carried by the first request payload, and the number of
    \* framed messages written so far
    payload, nwritten,
    \* the bytes in the pipe the receive task reads, and whether the other
    \* end has closed it
    wire, eof,
    \* the receive task's position in its loop, the line the reader thread
    \* has read for it, the length its header gave and the body it has read
    reading, line, length, data,
    \* the payloads the receive task has decoded, and whether it still runs
    delivered, framer

frameVars == <<endl, payload, nwritten, wire, eof, reading, line, length, data,
               delivered, framer>>

mainVars == <<workspace_path, id, process, opened_files, send_queue, pending_queue,
          received_queue, clangd_started, receive_task, send_task, writing,
          written, getters, woken, old_queue, pc, arg, myid, tracker, result,
          nevents, sent_count, matched_count, index_done>>

vars == <<mainVars, frameVars>>

clientVars == <<workspace_path, id, process, opened_files, send_queue,
                pending_queue, received_queue, clangd_started, receive_task,
                send_task, writing, written>>

\* The progress tracker of one start: the states it went through, its
\* percentage, and the percentage of the last report it consumed (-1: none).
NoTracker == [trace |-> <<>>, percentage |-> 0, reported |-> -1]
\* The last call that ended: the operation, "ok" or "error", the state its
\* tracker ended in (start only) and whether it ran past its first line.
NoResult == [op |-> "none", status |-> "none", tr |-> NoTracker, ran |-> FALSE]
Result(op, status, tr, ran) == [op |-> op, status |-> status, tr |-> tr, ran |-> ran]

\* src/clangd.py:14-30, ClangdClient.__init__; no coroutine has run.
ClientInit ==
    /\ workspace_path = ""
    /\ id = InitialId
    /\ process = "None"
    /\ opened_files = {}
    /\ send_queue = <<>>
    /\ pending_queue = <<>>
    /\ received_queue = <<>>
    /\ clangd_started = FALSE
    /\ receive_task = "none"
    /\ send_task = "none"
    /\ writing = NoMsg
    /\ written = {}
    /\ getters = <<>>
    /\ woken = {}
    /\ old_queue = [c \in Callers |-> <<>>]
    /\ pc = [c \in Callers |-> "idle"]
    /\ arg = [c \in Callers |-> ""]
    /\ myid = [c \in Callers |-> 0]
    /\ tracker = [c \in Callers |-> NoTracker]
    /\ result = NoResult
    /\ nevents = 0
    /\ sent_count = 0
    /\ matched_count = 0
    /\ index_done = FALSE

NoLine == <<"NoLine">>

\* Nothing is followed at the level of bytes.
FramerIdle ==
    /\ endl = <<"LF">>
    /\ payload = <<>>
    /\ nwritten = 0
    /\ wire = <<>>
    /\ eof = FALSE
    /\ reading = "line"
    /\ line = NoLine
    /\ length = 0
    /\ data = <<>>
    /\ delivered = <<>>
    /\ framer = "running"

Init == ClientInit /\ FramerIdle

Last(s) == s[Len(s)]

\* ------------------------------------------------------------ helpers
\* What one run of a foreground coroutine leaves behind: kind is "thread"
\* (suspended in asyncio.to_thread), "wait" (suspended in get() on the empty
\* received_queue), "ok" (returned) or "error" (raised); next is the
\* position it is suspended at.
Out(kind, next, tr, rq, sq, opened) ==
    [kind |-> kind, next |-> next, tr |-> tr, rq |-> rq, sq |-> sq,
     opened |-> opened]

\* A _send without the check of clangd_started.
SendAllowedAlways == TRUE

\* _send, lines 156-164: the RuntimeError when clangd_started is clear.
SendAllowed == clangd_started

\* A tracker that takes any id-bearing entry for the create request.
IsCreateRequestAnyId(m) == HasKey(m, "id")

\* wait_for_background_index_down, lines 258-260: the first entry must be a
\* create request (a missing 'method' key is a KeyError).
IsCreateRequest(m) == HasKey(m, "method") /\ m.method = CreateMethod

\* wait_for_background_index_down, line 272: progress['params']['value']['kind'].
HasKind(m) ==
    /\ HasKey(m, "params")
    /\ HasKey(m.params, "value")
    /\ HasKey(m.params.value, "kind")

\* A tracker whose `end` branch leaves the percentage as the reports left it.
NextPercentageEndKeeps(m, percentage) ==
    IF m.params.value.kind = "report" THEN m.params.value.percentage
    ELSE percentage

\* wait_for_background_index_down, lines 274-278: the percentage after one
\* loop iteration on progress message m.
NextPercentage(m, percentage) ==
    IF m.params.value.kind = "end" THEN 100
    ELSE IF m.params.value.kind = "report" THEN m.params.value.percentage
    ELSE percentage

\* wait_for_background_index_down, lines 255-280, from the moment get()
\* hands it entry m: tr is the tracker's state (the states it went through
\* and its percentage), rq what received_queue holds after m, sq the
\* send_queue.  It runs on through every entry that is already queued.
RECURSIVE TrackStep(_, _, _, _, _)
TrackStep(m, tr, rq, sq, opened) ==
    IF Last(tr.trace) = "AwaitingCreate"
    THEN IF ~IsCreateRequest(m)
         THEN Out("error", "idle", tr, rq, sq, opened)
         ELSE IF ~SendAllowed
         THEN Out("error", "idle", tr, rq, sq, opened)
         ELSE LET tr2 == [tr EXCEPT !.trace = Append(tr.trace, "Reporting"),
                                    !.percentage = 0]
                  sq2 == Append(sq, Envelope(Ack(m.id), FALSE))
              IN  IF rq = <<>>
                  THEN Out("wait", "start_track", tr2, rq, sq2, opened)
                  ELSE TrackStep(Head(rq), tr2, Tail(rq), sq2, opened)
    ELSE IF ~HasKind(m)
         THEN Out("error", "idle", tr, rq, sq, opened)
         ELSE IF m.params.value.kind = "end"
         THEN Out("ok", "idle",
                  [tr EXCEPT !.trace = Append(tr.trace, "Done"),
                             !.percentage = NextPercentage(m, tr.percentage)],
                  rq, sq, opened)
         ELSE LET tr2 == [tr EXCEPT !.percentage = NextPercentage(m, tr.percentage),
                                    !.reported = IF m.params.value.kind = "report"
                                                 THEN m.params.value.percentage ELSE @]
              IN  IF rq = <<>>
                  THEN Out("wait", "start_track", tr2, rq, sq, opened)
                  ELSE TrackStep(Head(rq), tr2, Tail(rq), sq, opened)

\* start, line 223: the call of wait_for_background_index_down and its
\* first get() (line 256).
StartTrack(rq, sq, opened) ==
    LET tr == [NoTracker EXCEPT !.trace = <<"AwaitingCreate">>]
    IN  IF rq = <<>>
        THEN Out("wait", "start_track", tr, rq, sq, opened)
        ELSE TrackStep(Head(rq), tr, Tail(rq), sq, opened)

\* A did_open without the check of opened_files.
AlreadyOpenedNever(fn) == FALSE

\* did_open, line 287: the file is already recorded as opened.
AlreadyOpened(fn) == fn \in opened_files

\* did_open, lines 292-304, resumed after the file was read: the didOpen
\* notification and the record of the opened file.
DidOpenSend(fn, sq) ==
    [sq |-> Append(sq, Envelope(Notification("textDocument/didOpen", fn), FALSE)),
     opened |-> opened_files \cup {fn}]

\* start, lines 213-218, once send_request('initialize') has returned: the
\* initialized notification, then the read of the compilation database.
StartAfterInitialize(rq, sq) ==
    IF ~SendAllowed
    THEN Out("error", "idle", NoTracker, rq, sq, opened_files)
    ELSE Out("thread", "start_cdb", NoTracker, rq,
             Append(sq, Envelope(Notification("initialized", "none"), FALSE)),
             opened_files)


\* ------------------------------------------------- foreground callers
Returned(out) == out.kind \in {"ok", "error"}

Suspended(c) == pc[c] # "idle"

\* What beginning a call costs of MaxEvents.
CallCost == IF \E d \in Callers : Suspended(d) THEN 2 ELSE 1

\* A caller begins a call.  The callers are interchangeable coroutines, so
\* of two idle callers the first one is taken.
BeginCall(c) ==
    /\ pc[c] = "idle"
    /\ \A d \in Callers : pc[d] = "idle" => (c = "c1" \/ d # "c1")
    /\ nevents + CallCost <= MaxEvents
    /\ nevents' = nevents + CallCost

\* The effect of one run of caller c's coroutine, per its outcome, on the
\* queues it touches, on its own position and locals (fn and ident are the
\* locals it keeps while suspended), and on the getters of received_queue
\* (asyncio.Queue.get appends a future to _getters when the queue is empty).
Apply(c, op, out, fn, ident) ==
    /\ send_queue' = out.sq
    /\ received_queue' = out.rq
    /\ opened_files' = out.opened
    /\ tracker' = [tracker EXCEPT ![c] = IF Returned(out) THEN NoTracker ELSE out.tr]
    /\ arg' = [arg EXCEPT ![c] = IF Returned(out) THEN "" ELSE fn]
    /\ myid' = [myid EXCEPT ![c] = IF out.kind = "wait" THEN ident ELSE 0]
    /\ pc' = [pc EXCEPT ![c] = IF Returned(out) THEN "idle" ELSE out.next]
    /\ getters' = IF out.kind = "wait" THEN Append(getters, c) ELSE getters
    /\ woken' = woken \ {c}
    /\ old_queue' = [old_queue EXCEPT ![c] = <<>>]
    /\ result' = IF Returned(out) THEN Result(op, out.kind, out.tr, TRUE) ELSE result
    /\ index_done' = (index_done \/ (out.kind = "ok" /\ out.tr.trace # <<>>
                                      /\ Last(out.tr.trace) = "Done"))

\* asyncio.Queue.get resumed after a put woke it: the entry it is handed.
\* The queue object is the one the caller suspended on, which stop() may
\* have replaced since (old_queue).
GotEntry(c) == IF old_queue[c] # <<>> THEN Head(old_queue[c]) ELSE Head(received_queue)
RestOfQueue(c) == IF old_queue[c] # <<>> THEN received_queue ELSE Tail(received_queue)
QueueIsEmpty(c) == old_queue[c] = <<>> /\ received_queue = <<>>

\* asyncio.Queue.get, `while self.empty()`: a woken getter that finds the
\* queue emptied by another caller waits again, at the tail of _getters.
Rewait(c) ==
    /\ getters' = Append(getters, c)
    /\ woken' = woken \ {c}
    /\ UNCHANGED <<clientVars, old_queue, pc, arg, myid, tracker, result,
                   nevents, sent_count, matched_count, index_done>>

\* A stop that replaces the two queues and forgets to clear the ledger.
StopQueuesKeepsLedger ==
    /\ opened_files' = {}
    /\ send_queue' = <<>>
    /\ pending_queue' = pending_queue
    /\ received_queue' = <<>>
    /\ getters' = <<>>
    /\ woken' = {c \in woken : old_queue[c] # <<>> \/ received_queue # <<>>}
    /\ old_queue' = [c \in Callers |->
                        IF c \in woken /\ old_queue[c] = <<>>
                        THEN received_queue ELSE old_queue[c]]
    /\ writing' = NoMsg
    /\ written' = {}
    /\ sent_count' = 0
    /\ matched_count' = 0
    /\ index_done' = FALSE

\* stop, lines 234-239, and what replacing the queue objects and the
\* process means for the model's bookkeeping: a woken getter of the
\* replaced received_queue still holds that object (with two callers at
\* most one, the other being the one that runs stop), and a getter that was
\* not woken stays in the replaced object's _getters for ever.
StopQueues ==
    /\ opened_files' = {}
    /\ send_queue' = <<>>
    /\ pending_queue' = <<>>
    /\ received_queue' = <<>>
    /\ getters' = <<>>
    /\ woken' = {c \in woken : old_queue[c] # <<>> \/ received_queue # <<>>}
    /\ old_queue' = [c \in Callers |->
                        IF c \in woken /\ old_queue[c] = <<>>
                        THEN received_queue ELSE old_queue[c]]
    /\ writing' = NoMsg
    /\ written' = {}
    /\ sent_count' = 0
    /\ matched_count' = 0
    /\ index_done' = FALSE

\* start, lines 175-176: the empty workspace path.
StartEmpty(c) ==
    /\ UNCHANGED frameVars
    /\ BeginCall(c)
    /\ result' = Result("start", "error", NoTracker, FALSE)
    /\ UNCHANGED <<clientVars, getters, woken, old_queue, pc, arg, myid,
                   tracker, sent_count, matched_count, index_done>>

\* A start that does not look at the process it already has.
StartIsNoopNever(ws) == FALSE

\* start, lines 178-187: the process is up and the workspace is the same.
StartIsNoop(ws) == process # "None" /\ ws = workspace_path

\* start, lines 178-187: the process is up and the workspace changed.
StartRestarts(ws) == process # "None" /\ ws # workspace_path

\* start, lines 174-210: up to the read of init_param.json.  The
\* workspaces are interchangeable, so a stopped client is started on the
\* first one.
StartCall(c, ws) ==
    /\ UNCHANGED frameVars
    /\ BeginCall(c)
    /\ process = "None" => ws = "/ws"
    /\ UNCHANGED <<id, arg, myid, tracker>>
    /\ IF StartIsNoop(ws)
       THEN /\ result' = Result("start", "ok", NoTracker, FALSE)
            /\ UNCHANGED <<clientVars, getters, woken, old_queue, pc,
                           sent_count, matched_count, index_done>>
       ELSE /\ IF StartRestarts(ws)
               THEN StopQueues
               ELSE UNCHANGED <<opened_files, send_queue, pending_queue,
                                received_queue, getters, woken, old_queue,
                                writing, written, sent_count, matched_count,
                                index_done>>
            /\ workspace_path' = ws
            /\ process' = "proc"
            /\ clangd_started' = TRUE
            /\ receive_task' = "running"
            /\ send_task' = "running"
            /\ pc' = [pc EXCEPT ![c] = "start_init"]
            /\ UNCHANGED result

\* get_id, lines 166-172 (a Python int never turns negative).
GetId == id + 1

\* What a foreground run leaves alone.
CallerFrame ==
    UNCHANGED <<workspace_path, process, pending_queue, clangd_started,
                receive_task, send_task, writing, written, sent_count,
                matched_count>>

\* start, line 213: send_request('initialize'), lines 244-249, and, when
\* the get() returns at once, lines 214-218.
StartInitialize(c) ==
    /\ UNCHANGED frameVars
    /\ pc[c] = "start_init"
    /\ id' = GetId
    /\ LET sq2 == Append(send_queue, Envelope(Request("initialize", GetId), TRUE))
       IN  Apply(c, "start",
                 IF ~SendAllowed
                 THEN Out("error", "idle", NoTracker, received_queue, send_queue,
                          opened_files)
                 ELSE IF received_queue = <<>>
                 THEN Out("wait", "start_resp", NoTracker, received_queue, sq2,
                          opened_files)
                 ELSE StartAfterInitialize(Tail(received_queue), sq2),
                 "", GetId)
    /\ CallerFrame
    /\ UNCHANGED nevents

\* start, lines 213-218, resumed in the get() of send_request('initialize').
StartGotResponse(c) ==
    /\ UNCHANGED frameVars
    /\ pc[c] = "start_resp"
    /\ c \in woken
    /\ IF QueueIsEmpty(c)
       THEN Rewait(c)
       ELSE /\ Apply(c, "start", StartAfterInitialize(RestOfQueue(c), send_queue),
                     "", 0)
            /\ CallerFrame
            /\ UNCHANGED <<id, nevents>>

\* start, lines 217-223, resumed after the read of the compilation
\* database: json.loads (which fails on a malformed file), then did_open up
\* to the read of the file, or, the file being open already, the tracker.
StartReadCdb(c) ==
    /\ UNCHANGED frameVars
    /\ pc[c] = "start_cdb"
    /\ \E readable \in BOOLEAN :
         Apply(c, "start",
               IF ~readable
               THEN Out("error", "idle", NoTracker, received_queue, send_queue,
                        opened_files)
               ELSE IF AlreadyOpened(CdbFile)
               THEN StartTrack(received_queue, send_queue, opened_files)
               ELSE Out("thread", "start_open", NoTracker, received_queue,
                        send_queue, opened_files),
               "", 0)
    /\ CallerFrame
    /\ UNCHANGED <<id, nevents>>

\* start, lines 221-223, resumed in did_open after the read of the file.
StartDidOpen(c) ==
    /\ UNCHANGED frameVars
    /\ pc[c] = "start_open"
    /\ Apply(c, "start",
             IF ~SendAllowed
             THEN Out("error", "idle", NoTracker, received_queue, send_queue,
                      opened_files)
             ELSE StartTrack(received_queue, DidOpenSend(CdbFile, send_queue).sq,
                             DidOpenSend(CdbFile, send_queue).opened),
             "", 0)
    /\ CallerFrame
    /\ UNCHANGED <<id, nevents>>

\* start, line 223, resumed in a get() of wait_for_background_index_down.
StartProgress(c) ==
    /\ UNCHANGED frameVars
    /\ pc[c] = "start_track"
    /\ c \in woken
    /\ IF QueueIsEmpty(c)
       THEN Rewait(c)
       ELSE /\ Apply(c, "start",
                     TrackStep(GotEntry(c), tracker[c], RestOfQueue(c),
                               send_queue, opened_files),
                     "", 0)
            /\ CallerFrame
            /\ UNCHANGED <<id, nevents>>

\* send_request, lines 244-249, called by a tool (workspace_symbol,
\* document_definition, ...): the id, the envelope and the get().
SendRequest(c) ==
    /\ UNCHANGED frameVars
    /\ BeginCall(c)
    /\ id' = GetId
    /\ LET sq2 == Append(send_queue, Envelope(Request("workspace/symbol", GetId), TRUE))
       IN  Apply(c, "request",
                 IF ~SendAllowed
                 THEN Out("error", "idle", NoTracker, received_queue, send_queue,
                          opened_files)
                 ELSE IF received_queue = <<>>
                 THEN Out("wait", "req_resp", NoTracker, received_queue, sq2,
                          opened_files)
                 ELSE Out("ok", "idle", NoTracker, Tail(received_queue), sq2,
                          opened_files),
                 "", GetId)
    /\ CallerFrame

\* send_request, line 249, resumed in its get(): it returns the entry.
RequestResume(c) ==
    /\ UNCHANGED frameVars
    /\ pc[c] = "req_resp"
    /\ c \in woken
    /\ IF QueueIsEmpty(c)
       THEN Rewait(c)
       ELSE /\ Apply(c, "request",
                     Out("ok", "idle", NoTracker, RestOfQueue(c), send_queue,
                         opened_files),
                     "", 0)
            /\ CallerFrame
            /\ UNCHANGED <<id, nevents>>

\* did_open, lines 283-297, called by a tool: up to the read of the file.
DidOpenCall(c, fn) ==
    /\ UNCHANGED frameVars
    /\ BeginCall(c)
    /\ IF AlreadyOpened(fn)
       THEN /\ result' = Result("open", "ok", NoTracker, FALSE)
            /\ UNCHANGED <<clientVars, getters, woken, old_queue, pc, arg,
                           myid, tracker, sent_count, matched_count, index_done>>
       ELSE /\ Apply(c, "open",
                     Out("thread", "open_read", NoTracker, received_queue,
                         send_queue, opened_files),
                     fn, 0)
            /\ CallerFrame
            /\ UNCHANGED id

\* did_open, lines 292-304, resumed after the read of the file.
DidOpenResume(c) ==
    /\ UNCHANGED frameVars
    /\ pc[c] = "open_read"
    /\ Apply(c, "open",
             IF ~SendAllowed
             THEN Out("error", "idle", NoTracker, received_queue, send_queue,
                      opened_files)
             ELSE Out("ok", "idle", NoTracker, received_queue,
                      DidOpenSend(arg[c], send_queue).sq,
                      DidOpenSend(arg[c], send_queue).opened),
             "", 0)
    /\ CallerFrame
    /\ UNCHANGED <<id, nevents>>

\* did_close, lines 306-315: the notification goes out first, then
\* set.remove raises KeyError for a path that is not in opened_files.
DidClose(c, fn) ==
    /\ UNCHANGED frameVars
    /\ BeginCall(c)
    /\ LET sq2 == Append(send_queue,
                         Envelope(Notification("textDocument/didClose", fn), FALSE))
       IN  Apply(c, "close",
                 IF ~SendAllowed
                 THEN Out("error", "idle", NoTracker, received_queue, send_queue,
                          opened_files)
                 ELSE IF fn \notin opened_files
                 THEN Out("error", "idle", NoTracker, received_queue, sq2,
                          opened_files)
                 ELSE Out("ok", "idle", NoTracker, received_queue, sq2,
                          opened_files \ {fn}),
                 "", 0)
    /\ CallerFrame
    /\ UNCHANGED id

\* asyncio.Task.cancel on a task: a task that already ended stays as it is.
Cancel(task) == IF task = "running" THEN "cancelled" ELSE task

\* stop, lines 225-242.  self.receive_task does not exist before the first
\* start (AttributeError at line 228), and self.process is None after a
\* stop (AttributeError at line 231, after the two cancels).
Stop(c) ==
    /\ UNCHANGED frameVars
    /\ BeginCall(c)
    /\ UNCHANGED <<id, pc, arg, myid, tracker>>
    /\ IF receive_task = "none"
       THEN /\ result' = Result("stop", "error", NoTracker, FALSE)
            /\ UNCHANGED <<workspace_path, process, opened_files, send_queue,
                           pending_queue, received_queue, clangd_started,
                           receive_task, send_task, writing, written, getters,
                           woken, old_queue, sent_count, matched_count,
                           index_done>>
       ELSE /\ receive_task' = Cancel(receive_task)
            /\ send_task' = Cancel(send_task)
            /\ IF process = "None"
               THEN /\ result' = Result("stop", "error", NoTracker, TRUE)
                    /\ UNCHANGED <<workspace_path, process, opened_files,
                                   send_queue, pending_queue, received_queue,
                                   clangd_started, writing, written, getters,
                                   woken, old_queue, sent_count, matched_count,
                                   index_done>>
               ELSE /\ process' = "None"
                    /\ workspace_path' = ""
                    /\ StopQueues
                    /\ clangd_started' = FALSE
                    /\ result' = Result("stop", "ok", NoTracker, TRUE)

\* ----------------------------------------------------- the send task
\* __send_task, lines 146-149: the ledger after envelope env was taken.
LedgerAfterTake(env, pq) == IF env.need_resp THEN Append(pq, env.request) ELSE pq

\* __send_task, lines 131-150: one envelope taken from send_queue, and the
\* request appended to pending_queue when it needs a response; the task
\* then suspends in the write (line 153).
SendTake ==
    /\ UNCHANGED frameVars
    /\ send_task = "running"
    /\ clangd_started
    /\ writing = NoMsg
    /\ send_queue # <<>>
    /\ send_queue' = Tail(send_queue)
    /\ writing' = Head(send_queue).request
    /\ pending_queue' = LedgerAfterTake(Head(send_queue), pending_queue)
    /\ sent_count' = IF Head(send_queue).need_resp THEN sent_count + 1 ELSE sent_count
    /\ UNCHANGED <<workspace_path, id, process, opened_files, received_queue,
                   clangd_started, receive_task, send_task, written, getters,
                   woken, old_queue, pc, arg, myid, tracker, result, nevents,
                   matched_count, index_done>>

\* __send_task, lines 152-154: the write and the flush are done.
SendWrite ==
    /\ UNCHANGED frameVars
    /\ send_task = "running"
    /\ writing # NoMsg
    /\ written' = IF HasKey(writing, "method") /\ HasKey(writing, "id")
                  THEN written \cup {writing.id} ELSE written
    /\ writing' = NoMsg
    /\ UNCHANGED <<workspace_path, id, process, opened_files, send_queue,
                   pending_queue, received_queue, clangd_started, receive_task,
                   send_task, getters, woken, old_queue, pc, arg, myid,
                   tracker, result, nevents, sent_count, matched_count,
                   index_done>>

\* -------------------------------------------------- the receive task
\* __receive_task, lines 82-123: what dispatch does with payload `response`
\* when the ledger is pq: "crash" (a KeyError ends the task), "drop",
\* "deliver" (put on received_queue) or "match" (put, and pop the ledger).
\* Line 102 compares request['id'] with itself, so no id is ever unmatched.
Dispatch(response, pq) ==
    IF HasKey(response, "id")
    THEN IF Len(pq) = 0
         THEN IF ~HasKey(response, "method") THEN "crash"
              ELSE IF response.method = CreateMethod
                      /\ response.params.token = BgToken THEN "deliver"
              ELSE "drop"
         ELSE IF Head(pq).id # Head(pq).id THEN "drop"
              ELSE IF HasKey(response, "method") /\ Head(pq).method # response.method
              THEN "drop"
              ELSE "match"
    ELSE IF ~HasKey(response, "method") THEN "crash"
         ELSE IF response.method = ProgressMethod THEN "deliver"
         ELSE "drop"

\* A dispatch that forwards a matched response and leaves the ledger alone.
LedgerAfterDispatchKeeps(d, pq) == pq

\* __receive_task, lines 111-115: the ledger after dispatch decided d.
LedgerAfterDispatch(d, pq) == IF d = "match" THEN Tail(pq) ELSE pq

\* __receive_task, lines 62-123: one framed message read and dispatched.
\* A KeyError ends the task; __done_cb (lines 52-60) then raises TypeError
\* from e.with_traceback() before it reaches loop.stop(), so the event loop
\* and every other coroutine go on.
Receive(response) ==
    /\ UNCHANGED frameVars
    /\ receive_task = "running"
    /\ clangd_started
    /\ nevents < MaxEvents
    /\ LET d == Dispatch(response, pending_queue)
           put == d \in {"deliver", "match"}
       IN  /\ nevents' = IF d = "drop" THEN nevents ELSE nevents + 1
           /\ receive_task' = IF d = "crash" THEN "failed" ELSE receive_task
           /\ received_queue' = IF put THEN Append(received_queue, response)
                                ELSE received_queue
           /\ getters' = IF put /\ getters # <<>> THEN Tail(getters) ELSE getters
           /\ woken' = IF put /\ getters # <<>> THEN woken \cup {Head(getters)} ELSE woken
           /\ pending_queue' = LedgerAfterDispatch(d, pending_queue)
           /\ matched_count' = IF d = "match" THEN matched_count + 1 ELSE matched_count
    /\ UNCHANGED <<workspace_path, id, process, opened_files, send_queue,
                   clangd_started, send_task, writing, written, old_queue, pc,
                   arg, myid, tracker, result, sent_count, index_done>>

Next ==
    \/ \E c \in Callers : StartEmpty(c)
    \/ \E c \in Callers, ws \in Workspaces : StartCall(c, ws)
    \/ \E c \in Callers : StartInitialize(c)
    \/ \E c \in Callers : StartGotResponse(c)
    \/ \E c \in Callers : StartReadCdb(c)
    \/ \E c \in Callers : StartDidOpen(c)
    \/ \E c \in Callers : StartProgress(c)
    \/ \E c \in Callers : SendRequest(c)
    \/ \E c \in Callers : RequestResume(c)
    \/ \E c \in Callers, fn \in Paths : DidOpenCall(c, fn)
    \/ \E c \in Callers : DidOpenResume(c)
    \/ \E c \in Callers, fn \in Paths : DidClose(c, fn)
    \/ \E c \in Callers : Stop(c)
    \/ SendTake
    \/ SendWrite
    \/ \E response \in PeerMsgs(written) : Receive(response)

Spec == Init /\ [][Next]_vars

\* The event loop runs every coroutine that is ready: a foreground
\* coroutine whose to_thread call has finished or whose get() was woken, and
\* the send task when send_queue is not empty or its write has finished.
\* Nothing obliges a tool to make a call or the peer to write a message.
Fairness ==
    /\ \A c \in Callers :
          /\ WF_vars(StartInitialize(c))
          /\ WF_vars(StartGotResponse(c))
          /\ WF_vars(StartReadCdb(c))
          /\ WF_vars(StartDidOpen(c))
          /\ WF_vars(StartProgress(c))
          /\ WF_vars(RequestResume(c))
          /\ WF_vars(DidOpenResume(c))
    /\ WF_vars(SendTake)
    /\ WF_vars(SendWrite)

FairSpec == Spec /\ Fairness

\* ====================================================== a start that ends
\* One start on a stopped client whose environment is in order (the
\* compilation database is readable) and whose peer keeps to the handshake:
\* it answers initialize, asks for the background-index progress once it has
\* read the didOpen, reports progress and ends it.  What the peer has done
\* so far shows in the client's state.
Starter == "c1"
EndProgress == Progress(BgToken, "end", 0)
Reports == {Progress(BgToken, "begin", 0), Progress(BgToken, "report", 40)}

\* The didOpen of the compilation database's file has been written.
DidOpenWritten ==
    /\ CdbFile \in opened_files
    /\ \A k \in 1..Len(send_queue) : ~send_queue[k].request = Notification("textDocument/didOpen", CdbFile)
    /\ writing # Notification("textDocument/didOpen", CdbFile)

PeerAnswered == matched_count > 0
PeerCreated == nevents > 2
PeerEnded ==
    \/ index_done
    \/ \E k \in 1..Len(received_queue) : received_queue[k] = EndProgress

\* start, lines 174-210, called once, on the stopped client.
PoliteStart ==
    /\ result = NoResult
    /\ process = "None"
    /\ StartCall(Starter, "/ws")

\* start, lines 217-218: the compilation database is read and parsed.
PoliteReadCdb ==
    /\ StartReadCdb(Starter)
    /\ pc'[Starter] # "idle"

\* The peer's response to the initialize request it has read.
PeerAnswers ==
    /\ ~PeerAnswered
    /\ \E i \in written : Receive(Resp(i))

\* The peer's window/workDoneProgress/create, after it has read the didOpen.
PeerCreates ==
    /\ PeerAnswered
    /\ ~PeerCreated
    /\ DidOpenWritten
    /\ Receive(CreateReq(BgToken))

\* The peer's $/progress begin and report notifications; it keeps room for
\* the end.
PeerReports ==
    /\ PeerCreated
    /\ ~PeerEnded
    /\ nevents + 1 < MaxEvents
    /\ \E m \in Reports : Receive(m)

\* The peer's $/progress end.
PeerEnds ==
    /\ PeerCreated
    /\ ~PeerEnded
    /\ Receive(EndProgress)

PoliteNext ==
    \/ PoliteStart
    \/ StartInitialize(Starter)
    \/ StartGotResponse(Starter)
    \/ PoliteReadCdb
    \/ StartDidOpen(Starter)
    \/ StartProgress(Starter)
    \/ SendTake
    \/ SendWrite
    \/ PeerAnswers
    \/ PeerCreates
    \/ PeerReports
    \/ PeerEnds

\* The event loop runs the coroutines that are ready, and the peer does
\* what the handshake asks of it.
PoliteFairness ==
    /\ WF_vars(StartInitialize(Starter))
    /\ WF_vars(StartGotResponse(Starter))
    /\ WF_vars(PoliteReadCdb)
    /\ WF_vars(StartDidOpen(Starter))
    /\ WF_vars(StartProgress(Starter))
    /\ WF_vars(SendTake)
    /\ WF_vars(SendWrite)
    /\ WF_vars(PeerAnswers)
    /\ WF_vars(PeerCreates)
    /\ WF_vars(PeerEnds)

PoliteSpec == Init /\ [][PoliteNext]_vars /\ PoliteFairness

\* ============================================================ framing
\* Characters and bytes are named by strings.  Outside the ASCII range the
\* model has one character, e-acute, whose UTF-8 encoding is two bytes.
QUOTE == "quote"
BSLASH == "backslash"
LF == "LF"
CR == "CR"
SP == "space"
EACUTE == "e-acute"
\* The characters a payload's text is made of.
TextChars == {"n", QUOTE, BSLASH, LF, CR, EACUTE}
Texts == UNION {[1..k -> TextChars] : k \in 0..MaxText}
\* clangd_utils.get_endl(): "\n", or "\r\n" on Windows.
Endls == {<<LF>>, <<CR, LF>>}
\* The text of the request written after the first one.
FollowText == <<"n">>
Outbox == <<payload, FollowText>>

StartsWith(s, p) == Len(s) >= Len(p) /\ SubSeq(s, 1, Len(p)) = p
\* str.removeprefix, str.removesuffix
RemovePrefix(s, p) == IF StartsWith(s, p) THEN SubSeq(s, Len(p) + 1, Len(s)) ELSE s
RemoveSuffix(s, p) ==
    IF Len(s) >= Len(p) /\ SubSeq(s, Len(s) - Len(p) + 1, Len(s)) = p
    THEN SubSeq(s, 1, Len(s) - Len(p)) ELSE s

DigitChars == <<"0", "1", "2", "3", "4", "5", "6", "7", "8", "9">>
IsDigit(ch) == \E d \in 1..Len(DigitChars) : DigitChars[d] = ch
DigitValue(ch) == (CHOOSE d \in 1..Len(DigitChars) : DigitChars[d] = ch) - 1

\* The decimal digits of a length, as the f-string of line 139 writes them.
RECURSIVE Str(_)
Str(n) ==
    IF n < Len(DigitChars) THEN <<DigitChars[n + 1]>>
    ELSE Str(n \div Len(DigitChars)) \o <<DigitChars[(n % Len(DigitChars)) + 1]>>

\* int() of line 74: the text must be a non-empty run of digits.
IsInt(s) == s # <<>> /\ \A i \in 1..Len(s) : IsDigit(s[i])
RECURSIVE ParseInt(_)
ParseInt(s) ==
    IF s = <<>> THEN 0
    ELSE ParseInt(SubSeq(s, 1, Len(s) - 1)) * Len(DigitChars) + DigitValue(s[Len(s)])

\* A character that json.dumps writes as it is.
EscapeCharNever(ch) == <<ch>>

\* json.dumps, line 137 (ensure_ascii is on by default): one character of a
\* string as it is written.
EscapeChar(ch) ==
    IF ch = QUOTE THEN <<BSLASH, QUOTE>>
    ELSE IF ch = BSLASH THEN <<BSLASH, BSLASH>>
    ELSE IF ch = LF THEN <<BSLASH, "n">>
    ELSE IF ch = CR THEN <<BSLASH, "r">>
    ELSE IF ch = EACUTE THEN <<BSLASH, "u", "0", "0", "e", "9">>
    ELSE <<ch>>

RECURSIVE EscapeAll(_)
EscapeAll(text) ==
    IF text = <<>> THEN <<>> ELSE EscapeChar(Head(text)) \o EscapeAll(Tail(text))

\* json.dumps of the payload {"t": text}: the opening up to the string, the
\* escaped string and the closing.
DumpsOpen == <<"{", QUOTE, "t", QUOTE, ":", SP, QUOTE>>
Dumps(text) == DumpsOpen \o EscapeAll(text) \o <<QUOTE, "}">>

\* json.loads, line 80: the text of the payload, or a JSONDecodeError.
Invalid == [ok |-> FALSE, text |-> <<>>]
RECURSIVE ParseString(_, _)
ParseString(s, acc) ==
    IF s = <<>> THEN Invalid
    ELSE IF Head(s) = QUOTE
    THEN IF Tail(s) = <<"}">> THEN [ok |-> TRUE, text |-> acc] ELSE Invalid
    ELSE IF Head(s) = BSLASH
    THEN IF Len(s) < 2 THEN Invalid
         ELSE IF s[2] = QUOTE THEN ParseString(SubSeq(s, 3, Len(s)), Append(acc, QUOTE))
         ELSE IF s[2] = BSLASH THEN ParseString(SubSeq(s, 3, Len(s)), Append(acc, BSLASH))
         ELSE IF s[2] = "n" THEN ParseString(SubSeq(s, 3, Len(s)), Append(acc, LF))
         ELSE IF s[2] = "r" THEN ParseString(SubSeq(s, 3, Len(s)), Append(acc, CR))
         ELSE IF StartsWith(s, <<BSLASH, "u", "0", "0", "e", "9">>)
         THEN ParseString(SubSeq(s, 7, Len(s)), Append(acc, EACUTE))
         ELSE Invalid
    ELSE IF Head(s) \in {LF, CR} THEN Invalid
    ELSE ParseString(Tail(s), Append(acc, Head(s)))

Loads(s) ==
    IF StartsWith(s, DumpsOpen)
    THEN ParseString(SubSeq(s, Len(DumpsOpen) + 1, Len(s)), <<>>)
    ELSE Invalid

\* str.encode, line 139: UTF-8.
RECURSIVE Encode(_)
Encode(chars) ==
    IF chars = <<>> THEN <<>>
    ELSE (IF Head(chars) = EACUTE THEN <<"xC3", "xA9">> ELSE <<Head(chars)>>)
         \o Encode(Tail(chars))

\* bytes.decode, lines 69 and 78: the characters, or a UnicodeDecodeError.
DecodeError == <<"UnicodeDecodeError">>
RECURSIVE DecodeFrom(_, _)
DecodeFrom(bytes, acc) ==
    IF bytes = <<>> THEN acc
    ELSE IF Head(bytes) = "xC3"
    THEN IF Len(bytes) >= 2 /\ bytes[2] = "xA9"
         THEN DecodeFrom(SubSeq(bytes, 3, Len(bytes)), Append(acc, EACUTE))
         ELSE DecodeError
    ELSE IF Head(bytes) = "xA9" THEN DecodeError
    ELSE DecodeFrom(Tail(bytes), Append(acc, Head(bytes)))
Decode(bytes) == DecodeFrom(bytes, <<>>)

\* __send_task, lines 137-139: the bytes of one framed message.  The length
\* is len(message), a count of characters.
Frame(text) ==
    Encode(<<"Content-Length", ":", SP>> \o Str(Len(Dumps(text)))
           \o <<CR, LF, CR, LF>> \o Dumps(text))

\* The frames of messages i..j of the outbox, one after the other.
RECURSIVE Frames(_, _)
Frames(i, j) == IF i > j THEN <<>> ELSE Frame(Outbox[i]) \o Frames(i + 1, j)

\* The index of the first LF of w, or 0.
FirstLF(w) ==
    IF \E i \in 1..Len(w) : w[i] = LF
    THEN CHOOSE i \in 1..Len(w) : w[i] = LF /\ \A j \in 1..(i - 1) : w[j] # LF
    ELSE 0

\* stdout.readline(): the bytes up to and including the first LF, or, at
\* the end of the stream, what is left (b'' when nothing is).
LineEnd(w) == IF FirstLF(w) > 0 THEN FirstLF(w) ELSE Len(w)
\* readline and read block until the bytes are there or the stream ended.
CanReadLine(w) == FirstLF(w) > 0 \/ eof
CanRead(w, n) == Len(w) >= n \/ eof

\* line.split(':')[1].strip(), line 74.
AfterColon(l) ==
    LET first == CHOOSE i \in 1..Len(l) : l[i] = ":" /\ \A j \in 1..(i - 1) : l[j] # ":"
        rest == SubSeq(l, first + 1, Len(l))
        more == {i \in 1..Len(rest) : rest[i] = ":"}
    IN  IF more = {} THEN rest
        ELSE SubSeq(rest, 1, (CHOOSE i \in more : \A j \in more : i <= j) - 1)
IsBlank(ch) == ch \in {SP, CR, LF}
RECURSIVE Strip(_)
Strip(t) ==
    IF t = <<>> THEN t
    ELSE IF IsBlank(Head(t)) THEN Strip(Tail(t))
    ELSE IF IsBlank(t[Len(t)]) THEN Strip(SubSeq(t, 1, Len(t) - 1))
    ELSE t

FrameFrame == UNCHANGED <<mainVars, endl, payload>>

\* __send_task, lines 137-154: the next message of the outbox is framed and
\* written to the pipe (which the peer, looped back, presents to the
\* receive task).
WriteFramed ==
    /\ ~eof
    /\ nwritten < Len(Outbox)
    /\ wire' = wire \o Frame(Outbox[nwritten + 1])
    /\ nwritten' = nwritten + 1
    /\ UNCHANGED <<eof, reading, line, length, data, delivered, framer>>
    /\ FrameFrame

\* The other end closes the stream: of the bytes not read yet, a prefix
\* arrives, which may end between two messages, in a header or in a body.
PeerCloses ==
    /\ ~eof
    /\ eof' = TRUE
    /\ \E k \in 0..Len(wire) : wire' = SubSeq(wire, 1, k)
    /\ UNCHANGED <<nwritten, reading, line, length, data, delivered, framer>>
    /\ FrameFrame

\* An exception ends the receive task (UnicodeDecodeError, ValueError,
\* JSONDecodeError).
Raise ==
    /\ framer' = "failed"
    /\ reading' = "ended"
    /\ line' = NoLine
    /\ length' = 0
    /\ data' = <<>>

\* __receive_task, line 68: the thread of asyncio.to_thread returns a line.
ThreadReadline ==
    /\ framer = "running"
    /\ reading = "line"
    /\ CanReadLine(wire)
    /\ line' = SubSeq(wire, 1, LineEnd(wire))
    /\ wire' = SubSeq(wire, LineEnd(wire) + 1, Len(wire))
    /\ reading' = "header"
    /\ UNCHANGED <<nwritten, eof, length, data, delivered, framer>>
    /\ FrameFrame

\* __receive_task, lines 69-74 and 124-128, resumed with the line: a header
\* line gives the length; any other line is logged when it is not empty, and
\* the loop goes round.
ReceiveLine ==
    /\ framer = "running"
    /\ reading = "header"
    /\ IF Decode(line) = DecodeError
       THEN Raise
       ELSE IF ~StartsWith(RemovePrefix(Decode(line), endl), <<"Content-Length", ":">>)
       THEN /\ reading' = "line"
            /\ line' = NoLine
            /\ UNCHANGED <<length, data, framer>>
       ELSE IF ~IsInt(Strip(AfterColon(RemovePrefix(Decode(line), endl))))
       THEN Raise
       ELSE /\ reading' = "skip"
            /\ length' = ParseInt(Strip(AfterColon(RemovePrefix(Decode(line), endl))))
            /\ line' = NoLine
            /\ UNCHANGED <<data, framer>>
    /\ UNCHANGED <<nwritten, wire, eof, delivered>>
    /\ FrameFrame

\* __receive_task, line 76: the empty line after the header is read and
\* thrown away.
SkipLine ==
    /\ framer = "running"
    /\ reading = "skip"
    /\ CanReadLine(wire)
    /\ wire' = SubSeq(wire, LineEnd(wire) + 1, Len(wire))
    /\ reading' = "body"
    /\ UNCHANGED <<nwritten, eof, line, length, data, delivered, framer>>
    /\ FrameFrame

\* __receive_task, line 78: stdout.read(length); at the end of the stream
\* it returns what is left.
ReadBody ==
    /\ framer = "running"
    /\ reading = "body"
    /\ CanRead(wire, length)
    /\ data' = SubSeq(wire, 1, IF Len(wire) < length THEN Len(wire) ELSE length)
    /\ wire' = SubSeq(wire, Len(data') + 1, Len(wire))
    /\ reading' = "loads"
    /\ UNCHANGED <<nwritten, eof, line, length, delivered, framer>>
    /\ FrameFrame

\* __receive_task, lines 78-80: decode, removesuffix and json.loads; the
\* payload then goes to dispatch.
LoadBody ==
    /\ framer = "running"
    /\ reading = "loads"
    /\ IF Decode(data) = DecodeError
       THEN Raise /\ UNCHANGED delivered
       ELSE IF ~Loads(RemoveSuffix(Decode(data), endl)).ok
       THEN Raise /\ UNCHANGED delivered
       ELSE /\ delivered' = Append(delivered, Loads(RemoveSuffix(Decode(data), endl)).text)
            /\ reading' = "line"
            /\ length' = 0
            /\ data' = <<>>
            /\ UNCHANGED <<line, framer>>
    /\ UNCHANGED <<nwritten, wire, eof>>
    /\ FrameFrame

FrameInit ==
    /\ ClientInit
    /\ endl \in Endls
    /\ payload \in Texts
    /\ nwritten = 0
    /\ wire = <<>>
    /\ eof = FALSE
    /\ reading = "line"
    /\ line = NoLine
    /\ length = 0
    /\ data = <<>>
    /\ delivered = <<>>
    /\ framer = "running"

FrameNext ==
    \/ WriteFramed
    \/ PeerCloses
    \/ ThreadReadline
    \/ ReceiveLine
    \/ SkipLine
    \/ ReadBody
    \/ LoadBody

\* The reader thread and the receive task run whenever they can.
FrameSpec ==
    /\ FrameInit
    /\ [][FrameNext]_vars
    /\ WF_vars(ThreadReadline)
    /\ WF_vars(ReceiveLine)
    /\ WF_vars(SkipLine)
    /\ WF_vars(ReadBody)
    /\ WF_vars(LoadBody)

\* ================================================================ claims
StartPcs == {"start_init", "start_resp", "start_cdb", "start_open", "start_track"}
DoneTracker(reported) ==
    [trace |-> <<"AwaitingCreate", "Reporting", "Done">>, percentage |-> 100,
     reported |-> reported]
IsAck(env) == HasKey(env.request, "result")
IsDidOpen(env, fn) == env.request = Notification("textDocument/didOpen", fn)
Count(sq, P(_)) == Cardinality({i \in 1..Len(sq) : P(sq[i])})
IsResponseTo(m, ident) == HasKey(m, "id") /\ ~HasKey(m, "method") /\ m.id = ident

\* C1: a send_request call that returns hands its caller the response whose
\* id is the id allocated for that call, whether the get() returned at once
\* or after the caller was suspended.
C1_ResponseIsOwn ==
    [][/\ \A c \in Callers :
            (pc[c] = "req_resp" /\ pc'[c] = "idle")
                => IsResponseTo(GotEntry(c), myid[c])
       /\ \A c \in Callers :
            (SendRequest(c) /\ pc'[c] = "idle" /\ result'.status = "ok")
                => IsResponseTo(Head(received_queue), id')]_vars

\* C2: while a process is up, the ledger holds as many entries as the send
\* task took envelopes that need a response, minus the responses dispatch
\* matched against the ledger head.
C2_LedgerSize ==
    process # "None" => Len(pending_queue) = sent_count - matched_count

C2_Witness ==
    /\ process # "None"
    /\ sent_count = 2
    /\ matched_count = 1
    /\ Len(pending_queue) = 1

\* C3: an id-bearing message that arrives while the ledger is empty and is
\* not the create request for the background-index token is dropped: the
\* delivery queue and the ledger are unchanged and the receive task runs on.
C3_UnmatchedIsDropped ==
    [][\A m \in PeerMsgs(written) :
          (/\ Receive(m)
           /\ HasKey(m, "id")
           /\ pending_queue = <<>>
           /\ m # CreateReq(BgToken))
          => /\ received_queue' = received_queue
             /\ pending_queue' = pending_queue
             /\ receive_task' = "running"]_vars

\* C4: a did_open that returns records its path and enqueues one didOpen for
\* it; the record stays until a did_close or a stop; and a did_open begun
\* while its path is recorded returns at once and enqueues nothing.  So two
\* calls in a row for one path enqueue exactly one didOpen.
C4_SecondOpenIsSilent ==
    [][/\ \A c \in Callers :
            (pc[c] = "open_read" /\ pc'[c] = "idle" /\ result'.status = "ok")
                => /\ arg[c] \in opened_files'
                   /\ send_queue' = Append(send_queue,
                          Envelope(Notification("textDocument/didOpen", arg[c]), FALSE))
       /\ \A fn \in Paths :
            (fn \in opened_files /\ fn \notin opened_files')
                => \/ result'.op = "close" /\ nevents' # nevents
                   \/ process' = "None"
                   \/ workspace_path' # workspace_path
       /\ \A c \in Callers, fn \in Paths :
            (DidOpenCall(c, fn) /\ fn \in opened_files)
                => /\ send_queue' = send_queue
                   /\ opened_files' = opened_files
                   /\ pc'[c] = "idle"
                   /\ result' = Result("open", "ok", NoTracker, FALSE)]_vars

C4_Witness ==
    /\ clangd_started
    /\ result = Result("open", "ok", NoTracker, FALSE)
    /\ CdbFile \in opened_files
    /\ Count(send_queue, LAMBDA env : IsDidOpen(env, CdbFile)) = 1
    /\ \E c \in Callers : pc[c] \in {"start_resp", "start_cdb"}

\* C5: a start that ran the handshake and returned went through
\* AwaitingCreate, Reporting and Done, once each and in that order, and its
\* percentage is 100 whatever the last report carried; a tracker still
\* running has gone through a prefix of that sequence.
C5_HandshakeOrder ==
    /\ (result.op = "start" /\ result.status = "ok" /\ result.ran)
          => result.tr = DoneTracker(result.tr.reported)
    /\ \A c \in Callers :
          tracker[c].trace \in {<<>>, <<"AwaitingCreate">>,
                                <<"AwaitingCreate", "Reporting">>}

C5_Witness ==
    /\ result.op = "start"
    /\ result.status = "ok"
    /\ result.ran
    /\ result.tr = DoneTracker(40)

\* C6: a payload with neither an id nor a method is dropped: nothing is
\* delivered, the ledger is unchanged and the receive task runs on.
C6_EmptyPayloadIsDropped ==
    [][Receive(EmptyPayload)
          => /\ received_queue' = received_queue
             /\ pending_queue' = pending_queue
             /\ receive_task' = "running"]_vars

\* The entry a tracker in AwaitingCreate consumes in this step, be it after
\* a suspension in get() or at once; NoMsg when no tracker does.
FirstTrackerEntry(c) ==
    IF /\ pc[c] = "start_track"
       /\ tracker[c].trace = <<"AwaitingCreate">>
       /\ c \in woken
       /\ c \notin woken'
       /\ ~QueueIsEmpty(c)
    THEN GotEntry(c)
    ELSE IF /\ pc[c] \in {"start_cdb", "start_open"}
            /\ pc'[c] # pc[c]
            /\ received_queue # <<>>
            /\ received_queue' # received_queue
    THEN Head(received_queue)
    ELSE NoMsg

\* C7: when the first entry the tracker consumes is not a
\* window/workDoneProgress/create request, start fails and no
\* acknowledgement is enqueued.
C7_WrongFirstEntryIsFatal ==
    [][\A c \in Callers :
          (/\ FirstTrackerEntry(c) # NoMsg
           /\ ~(/\ HasKey(FirstTrackerEntry(c), "method")
                /\ FirstTrackerEntry(c).method = CreateMethod))
          => /\ pc'[c] = "idle"
             /\ result'.op = "start"
             /\ result'.status = "error"
             /\ result'.tr.trace = <<"AwaitingCreate">>
             /\ Count(send_queue', IsAck) = Count(send_queue, IsAck)]_vars

C7_Witness ==
    /\ result.op = "start"
    /\ result.status = "error"
    /\ result.tr.trace = <<"AwaitingCreate">>
    /\ clangd_started
    /\ received_queue = <<>>
    /\ Count(send_queue, IsAck) = 0
    /\ pending_queue # <<>>

\* C8: whenever start returns without error, a tracker has reached Done on
\* the current connection.
C8_StartMeansIndexed ==
    [][(\/ \E c \in Callers, ws \in Workspaces :
              /\ StartCall(c, ws)
              /\ pc'[c] = "idle"
              /\ result'.status = "ok"
        \/ \E c \in Callers :
              /\ pc[c] \in StartPcs
              /\ pc'[c] = "idle"
              /\ result'.status = "ok")
          => index_done']_vars

\* C9: when start fails after the process was spawned, the process handle
\* is gone, neither background task runs and clangd_started is clear.
C9_FailedStartCleansUp ==
    [][\A c \in Callers :
          (pc[c] \in StartPcs /\ pc'[c] = "idle" /\ result'.status = "error")
          => /\ process' = "None"
             /\ receive_task' # "running"
             /\ send_task' # "running"
             /\ ~clangd_started']_vars

\* C10: start on a client whose process is up on the same workspace returns
\* at once and changes nothing: no process, no task, no envelope, and the
\* ledger, the queues, the opened files and the id stay as they are.
C10_SameWorkspaceIsNoop ==
    [][\A c \in Callers, ws \in Workspaces :
          (StartCall(c, ws) /\ process # "None" /\ ws = workspace_path)
          => /\ UNCHANGED clientVars
             /\ UNCHANGED <<getters, woken, old_queue, pc, arg, myid, tracker>>
             /\ result' = Result("start", "ok", NoTracker, FALSE)]_vars

C10_Witness ==
    /\ result = Result("start", "ok", NoTracker, FALSE)
    /\ process # "None"
    /\ \A c \in Callers : pc[c] = "idle"

\* C11: once stop has returned on a started client, and until the next
\* start, the ledger, the send queue, the delivery queue and the opened
\* files are empty, neither background task runs, the process handle is
\* absent and clangd_started is clear, whatever the pipeline held.
C11_StoppedIsEmpty ==
    process = "None"
        => /\ pending_queue = <<>>
           /\ send_queue = <<>>
           /\ received_queue = <<>>
           /\ opened_files = {}
           /\ writing = NoMsg
           /\ receive_task # "running"
           /\ send_task # "running"
           /\ ~clangd_started
           /\ workspace_path = ""

\* stop has returned while a response was still undelivered (a woken caller
\* holds the replaced queue) and a request had been made.
C11_Witness ==
    /\ result = Result("stop", "ok", NoTracker, TRUE)
    /\ process = "None"
    /\ receive_task = "cancelled"
    /\ send_task = "cancelled"
    /\ id > InitialId
    /\ \E c \in Callers : old_queue[c] # <<>>

\* A caller suspended in the get() of send_request or of the tracker.
InGet(c) == pc[c] \in {"start_resp", "start_track", "req_resp"}

\* C12: a caller that is suspended in get() on the delivery queue when
\* stop has run is eventually released.
C12_StopReleasesCallers ==
    \A c \in Callers : (InGet(c) /\ process = "None") ~> (pc[c] = "idle")

\* C13: send_request and send_notification (the latter reached through
\* did_close and did_open) called while clangd_started is clear, before the
\* first start or after a stop, raise to the caller; nothing is put on the
\* send queue and the ledger and the delivery queue stay as they are.
C13_SendBeforeReadyFails ==
    [][\A c \in Callers :
          (/\ ~clangd_started
           /\ \/ SendRequest(c)
              \/ \E fn \in Paths : DidClose(c, fn)
              \/ DidOpenResume(c))
          => /\ pc'[c] = "idle"
             /\ result'.status = "error"
             /\ result'.op \in {"request", "close", "open"}
             /\ UNCHANGED <<send_queue, pending_queue, received_queue>>]_vars

\* A send_request has failed on a stopped client.
C13_Witness ==
    /\ result = Result("request", "error", NoTracker, TRUE)
    /\ ~clangd_started
    /\ receive_task = "cancelled"
    /\ send_queue = <<>>
    /\ id > InitialId + 1

\* C14: did_close on a started client for a path that is not in
\* opened_files raises to the caller and does nothing else: no didClose is
\* put on the send queue and opened_files stays as it is.
C14_CloseUnopenedHasNoEffect ==
    [][\A c \in Callers, fn \in Paths :
          (DidClose(c, fn) /\ clangd_started /\ fn \notin opened_files)
          => /\ result'.status = "error"
             /\ send_queue' = send_queue
             /\ opened_files' = opened_files]_vars

\* C15: what the send task writes for a payload, the receive task parses
\* into the same payload: while the stream is open the receive task does not
\* fail, every payload it decodes is the one that was written, in order, and
\* between two messages the pipe holds exactly the frames not parsed yet.
C15_FramingRoundTrip ==
    /\ ~eof => framer = "running"
    /\ Len(delivered) <= nwritten
    /\ \A i \in 1..Len(delivered) : delivered[i] = Outbox[i]
    /\ (~eof /\ reading = "line") => wire = Frames(Len(delivered) + 1, nwritten)

\* Both messages went through, the first with a text of two characters that
\* need escaping.
C15_Witness ==
    /\ ~eof
    /\ payload = <<EACUTE, LF>>
    /\ endl = <<CR, LF>>
    /\ delivered = <<payload, FollowText>>
    /\ reading = "line"
    /\ wire = <<>>

\* C19: once the peer has closed its output, the receive task eventually
\* ends with a failure.
C19_EofEndsReceive == eof ~> (framer = "failed")

\* The ledger holds the entry of the request with id i.
InLedger(i) == \E k \in 1..Len(pending_queue) : pending_queue[k].id = i

\* C16: the send task appends the ledger entry of a request that needs a
\* response in the step that takes the envelope, before the write, and
\* whenever the response to a written request is dispatched the entry of
\* that request is in the ledger.
C16_EntryBeforeResponse ==
    [][/\ (SendTake /\ Head(send_queue).need_resp)
             => /\ pending_queue' = Append(pending_queue, Head(send_queue).request)
                /\ written' = written
       /\ \A i \in written : Receive(Resp(i)) => InLedger(i)]_vars

\* The tracker of caller c consumes a create request in this step.
TrackerTakesCreate(c) ==
    /\ FirstTrackerEntry(c) # NoMsg
    /\ HasKey(FirstTrackerEntry(c), "method")
    /\ FirstTrackerEntry(c).method = CreateMethod

\* The step puts one acknowledgement of the create request on the send
\* queue, as its last envelope, and leaves the ledger alone.
AckEnqueued(c) ==
    /\ Count(send_queue', IsAck) = Count(send_queue, IsAck) + 1
    /\ Last(send_queue') = Envelope([id |-> FirstTrackerEntry(c).id, result |-> "null"], FALSE)
    /\ pending_queue' = pending_queue

\* The send task takes an acknowledgement without adding to the ledger.
AckAddsNoEntry ==
    (SendTake /\ IsAck(Head(send_queue))) => pending_queue' = pending_queue

\* C17 as stated: whenever the tracker consumes the create request it puts
\* one acknowledgement on the send queue, with the request's id, a null
\* result and need_resp false, whatever it consumes next, and the
\* acknowledgement adds nothing to the ledger.
C17_AckOnCreate ==
    [][/\ \A c \in Callers : TrackerTakesCreate(c) => AckEnqueued(c)
       /\ AckAddsNoEntry]_vars

\* The entries the tracker of caller c can consume in this step, in order,
\* and the ones it does consume.
TrackerQueue(c) ==
    IF pc[c] = "start_track" THEN <<GotEntry(c)>> \o RestOfQueue(c)
    ELSE received_queue
Consumed(c) ==
    SubSeq(TrackerQueue(c), 1, Len(TrackerQueue(c)) - Len(received_queue'))

\* The tracker of caller c goes from AwaitingCreate to Reporting in this step.
LeavesAwaitingCreate(c) ==
    /\ FirstTrackerEntry(c) # NoMsg
    /\ \/ Len(tracker'[c].trace) > 1
       \/ pc'[c] = "idle" /\ Len(result'.tr.trace) > 1

\* The tracker of caller c reaches Done in this step, and start returns.
TrackerEnds(c) ==
    /\ pc[c] \in {"start_cdb", "start_open", "start_track"}
    /\ pc'[c] = "idle"
    /\ result'.op = "start"
    /\ result'.status = "ok"
    /\ result'.tr.trace # <<>>
    /\ Last(result'.tr.trace) = "Done"

\* C18: the tracker leaves AwaitingCreate only on a create request for the
\* background-index token, and reaches Done only on a $/progress of kind
\* end for that token.
C18_OnlyBackgroundToken ==
    [][\A c \in Callers :
          /\ LeavesAwaitingCreate(c) => FirstTrackerEntry(c) = CreateReq(BgToken)
          /\ TrackerEnds(c)
             => /\ Consumed(c) # <<>>
                /\ Last(Consumed(c)) = Progress(BgToken, "end", 0)]_vars

\* C20: with the send and receive tasks scheduled fairly and a peer that
\* keeps to the handshake, a start on a stopped client returns without
\* error, and the ledger and received_queue are empty then.
C20_StartEnds ==
    (pc[Starter] = "start_init")
        ~> (/\ pc[Starter] = "idle"
            /\ result = Result("start", "ok", result.tr, TRUE)
            /\ pending_queue = <<>>
            /\ received_queue = <<>>)

\* The start has returned after a begin and a report; the ledger and
\* received_queue are empty and nothing is left to send.
C20_Witness ==
    /\ pc[Starter] = "idle"
    /\ result.op = "start"
    /\ result.status = "ok"
    /\ result.tr.trace = <<"AwaitingCreate", "Reporting", "Done">>
    /\ result.tr.reported = 40
    /\ nevents = MaxEvents
    /\ pending_queue = <<>>
    /\ received_queue = <<>>
    /\ send_queue = <<>>
    /\ writing = NoMsg

\* The didOpen notifications for path fn on a send queue.
DidOpenCount(sq, fn) == Count(sq, LAMBDA env : IsDidOpen(env, fn))

\* The path caller c is opening, in did_open after the read of the file.
Opening(c) == IF pc[c] = "start_open" THEN CdbFile ELSE arg[c]

\* C21: a did_open that resumes after the read of its file enqueues a
\* didOpen only for a path no other did_open has recorded meanwhile: of two
\* overlapping calls for one path, with no close or stop in between, at
\* most one enqueues the notification.
C21_OverlappingOpensSendOnce ==
    [][\A c \in Callers :
          (/\ pc[c] \in {"open_read", "start_open"}
           /\ pc'[c] # pc[c]
           /\ DidOpenCount(send_queue', Opening(c)) > DidOpenCount(send_queue, Opening(c)))
          => Opening(c) \notin opened_files]_vars

\* C22: a stop on a stopped client returns without error and leaves the
\* client stopped, with the ledger, the queues and opened_files empty.
C22_StopOnStoppedIsQuiet ==
    [][\A c \in Callers :
          (Stop(c) /\ process = "None")
          => /\ result'.op = "stop"
             /\ result'.status = "ok"
             /\ process' = "None"
             /\ ~clangd_started'
             /\ pending_queue' = <<>>
             /\ send_queue' = <<>>
             /\ received_queue' = <<>>
             /\ opened_files' = {}]_vars

====
